---- MODULE Spec2Model ----
(***************************************************************************)
(* Model of the pymft-rs streaming record iterator (src/lib.rs):           *)
(* PyMftParser, the single-use facade that owns an MftParser handle, and   *)
(* PyMftEntriesIterator, the cursor over the table's record slots that     *)
(* renders each record as a Python object, a JSON string or a CSV buffer.  *)
(***************************************************************************)
EXTENDS Integers, Sequences, FiniteSets

VARIABLES
    parser,      \* facade name -> PyMftParser { inner }
    iterators,   \* the PyMftEntriesIterator objects created so far
    pulled,      \* per iterator: the values its next() calls have returned
    decode_log,  \* per iterator: the slot indexes it asked get_entry for
    last         \* the last call made and what it returned

vars == <<parser, iterators, pulled, decode_log, last>>

----------------------------------------------------------------------------
(* Bounds of the model. *)

\* Longest table (number of record slots) the parser is opened on.
MaxSlots == 4

----------------------------------------------------------------------------
(* Option / Result, as the code uses them. *)

None == [tag |-> "None"]

Some(v) == [tag |-> "Some", val |-> v]

Ok(v) == [tag |-> "Ok", val |-> v]

Err(e) == [tag |-> "Err", err |-> e]

\* enum Output { Python, CSV, JSON }
Output == {"Python", "CSV", "JSON"}

\* mft::entry::ZERO_HEADER, the signature of an unallocated slot.
ZERO_HEADER == "0000"

\* The signature of an allocated record.
FILE_HEADER == "FILE"

\* What the bytes of one slot can be, as far as this code can tell them apart:
\*   "zero"    decodes, signature is ZERO_HEADER
\*   "file"    decodes, signature is valid, every renderer succeeds
\*   "orphan"  decodes, signature is valid, its parent path cannot be
\*             resolved (a cross-reference the Object renderer follows)
\*   "unser"   decodes, signature is valid, the renderer in use fails
\*   "corrupt" does not decode
SlotKinds == {"zero", "file", "orphan", "unser", "corrupt"}

RECURSIVE TablesOfLen(_)
TablesOfLen(n) ==
    IF n = 0 THEN {<<>>}
    ELSE {Append(t, k) : t \in TablesOfLen(n - 1), k \in SlotKinds}

\* Every table of at most MaxSlots slots.
Tables == UNION {TablesOfLen(n) : n \in 0..MaxSlots}

\* The facades of the model.
Facades == {"p1"}

\* The messages of the errors the code raises.
AlreadyConsumed == "PyMftParser can only be used once"

NotInitialized == "Cannot call this method before object is initialized"

NotSupported == "Using next() over PyMftParser is not supported"

----------------------------------------------------------------------------
(* The MftParser handle (external decoder), by the interface lib.rs uses. *)

\* MftParser::from_read_seek: the handle opened on the input of facade p.
MftParser(p, slots) == [src |-> p, slots |-> slots]

\* MftParser::get_entry_count
get_entry_count(inner) == Len(inner.slots)

\* MftParser::get_entry(i): the decoded entry of slot i (0-based), or an error.
get_entry(inner, i) ==
    LET kind == inner.slots[i + 1] IN
    IF kind = "corrupt"
    THEN Err([slot |-> i, msg |-> "decode"])
    ELSE Ok([slot |-> i,
             header |-> [signature |-> IF kind = "zero" THEN ZERO_HEADER
                                       ELSE FILE_HEADER],
             renderable |-> kind # "unser",
             parent_resolves |-> kind # "orphan"])

----------------------------------------------------------------------------
(* The values a pull returns (PyObject). *)

\* A rendered record: typ is "PyMftEntry", "str" (JSON) or "bytes" (CSV);
\* header tells whether a CSV buffer starts with the header line.
Rendered(typ, slot, header) ==
    [typ |-> typ, slot |-> slot, header |-> header, msg |-> ""]

\* An error delivered as a value (PyErr::to_object).
ErrObject(slot, msg) ==
    [typ |-> "error", slot |-> slot, header |-> FALSE, msg |-> msg]

----------------------------------------------------------------------------
(* PyMftParser: the facade. *)

\* records_iterator reading the handle through a clone instead of take():
\* the facade keeps its handle after handing it out.
records_iterator_clone(self, output_format) ==
    LET taken == self.inner
    IN  IF taken = None
        THEN [self |-> self, ret |-> Err(AlreadyConsumed)]
        ELSE [self |-> self,
              ret  |-> Ok([inner                   |-> taken.val,
                           total_number_of_records |-> get_entry_count(taken.val),
                           current_record          |-> 0,
                           output_format           |-> output_format,
                           csv_header_written      |-> FALSE])]

\* fn records_iterator(&mut self, output_format): self.inner.take(); with no
\* handle left the call fails, otherwise the handle moves into a new iterator.
\* Gives the facade after the call and what the call returns.
records_iterator(self, output_format) ==
    LET taken == self.inner
        self1 == [self EXCEPT !.inner = None]
    IN  IF taken = None
        THEN [self |-> self1, ret |-> Err(AlreadyConsumed)]
        ELSE LET inner     == taken.val
                 n_records == get_entry_count(inner)
             IN  [self |-> self1,
                  ret  |-> Ok([inner                   |-> inner,
                               total_number_of_records |-> n_records,
                               current_record          |-> 0,
                               output_format           |-> output_format,
                               csv_header_written      |-> FALSE])]

\* fn entries(&mut self)
entries(self) == records_iterator(self, "Python")

\* entries_json passing the output format of entries_csv.
entries_json_as_csv(self) == records_iterator(self, "CSV")

\* fn entries_json(&mut self)
entries_json(self) == records_iterator(self, "JSON")

\* fn entries_csv(&mut self)
entries_csv(self) == records_iterator(self, "CSV")

\* number_of_entries that answers 0 for a facade without a handle
\* (map_or(0, ..)) instead of failing.
number_of_entries_default(self) ==
    IF self.inner # None
    THEN Ok(get_entry_count(self.inner.val))
    ELSE Ok(0)

\* fn number_of_entries(&self)
number_of_entries(self) ==
    IF self.inner # None
    THEN Ok(get_entry_count(self.inner.val))
    ELSE Err(NotInitialized)

----------------------------------------------------------------------------
(* PyMftEntriesIterator: the renderers. Each gives the iterator after the  *)
(* call (self) and the PyObject it returns (obj).                          *)

\* The soft error a PyMftEntry carries in place of a path it could not resolve.
UnresolvedPath == "full_path unresolved"

\* PyMftEntry::from_mft_entry(py, entry, &mut self.inner).map(to_object):
\* a failed cross-reference resolution is kept as a soft error in the field
\* (msg of the rendered record) and the entry is still built.
from_mft_entry(entry) ==
    IF entry.renderable
    THEN Ok([Rendered("PyMftEntry", entry.slot, FALSE) EXCEPT
                !.msg = IF entry.parent_resolves THEN "" ELSE UnresolvedPath])
    ELSE Err([slot |-> entry.slot, msg |-> "PyMftEntry construction failed"])

\* serde_json::to_string(&entry)
to_string(entry) ==
    IF entry.renderable
    THEN Ok(Rendered("str", entry.slot, FALSE))
    ELSE Err([slot |-> entry.slot, msg |-> "serde_json"])

\* writer.serialize(FlatMftEntryWithName::from_entry(..)) on a writer built
\* with has_headers: the buffer starts with the header line iff has_headers.
serialize(has_headers, entry) ==
    IF entry.renderable
    THEN Ok(Rendered("bytes", entry.slot, has_headers))
    ELSE Err([slot |-> entry.slot, msg |-> "csv"])

\* writer.into_inner(): flushing into a Vec<u8> does not fail.
into_inner(buffer) == Ok(buffer)

\* entry_to_pyobject that gives up on an entry one of whose fields holds a
\* soft error, returning an error value in its place.
entry_to_pyobject_strict(self, entry_result) ==
    IF entry_result.tag = "Ok"
    THEN LET py_mft_entry == from_mft_entry(entry_result.val) IN
         IF py_mft_entry.tag = "Ok" /\ py_mft_entry.val.msg = ""
         THEN [self |-> self, obj |-> py_mft_entry.val]
         ELSE [self |-> self,
               obj  |-> ErrObject(entry_result.val.slot, "PyMftEntry construction failed")]
    ELSE [self |-> self,
          obj  |-> ErrObject(entry_result.err.slot, entry_result.err.msg)]

\* fn entry_to_pyobject(&mut self, entry_result, py)
entry_to_pyobject(self, entry_result) ==
    IF entry_result.tag = "Ok"
    THEN LET py_mft_entry == from_mft_entry(entry_result.val) IN
         IF py_mft_entry.tag = "Ok"
         THEN [self |-> self, obj |-> py_mft_entry.val]
         ELSE [self |-> self,
               obj  |-> ErrObject(py_mft_entry.err.slot, py_mft_entry.err.msg)]
    ELSE [self |-> self,
          obj  |-> ErrObject(entry_result.err.slot, entry_result.err.msg)]

\* fn entry_to_json(&mut self, entry_result, py)
entry_to_json(self, entry_result) ==
    IF entry_result.tag = "Ok"
    THEN LET s == to_string(entry_result.val) IN
         IF s.tag = "Ok"
         THEN [self |-> self, obj |-> s.val]
         ELSE [self |-> self,
               obj  |-> ErrObject(entry_result.val.slot, "JSON Serialization failed")]
    ELSE [self |-> self,
          obj  |-> ErrObject(entry_result.err.slot, entry_result.err.msg)]

\* fn entry_to_csv(&mut self, entry_result, py): the writer is built with
\* has_headers(!csv_header_written) and the flag is set before the record is
\* serialized.
entry_to_csv(self, entry_result) ==
    LET has_headers == ~self.csv_header_written
        self1 == IF ~self.csv_header_written
                 THEN [self EXCEPT !.csv_header_written = TRUE]
                 ELSE self
    IN  IF entry_result.tag = "Ok"
        THEN LET written == serialize(has_headers, entry_result.val) IN
             IF written.tag = "Ok"
             THEN LET bytes == into_inner(written.val) IN
                  IF bytes.tag = "Ok"
                  THEN [self |-> self1, obj |-> bytes.val]
                  ELSE [self |-> self1,
                        obj  |-> ErrObject(entry_result.val.slot, bytes.err)]
             ELSE [self |-> self1,
                   obj  |-> ErrObject(entry_result.val.slot, "CSV Serialization failed")]
        ELSE [self |-> self1,
              obj  |-> ErrObject(entry_result.err.slot, entry_result.err.msg)]

----------------------------------------------------------------------------
(* PyMftEntriesIterator::next *)

\* render with the JSON arm calling the CSV renderer.
render_json_as_csv(self, entry) ==
    CASE self.output_format = "Python" -> entry_to_pyobject(self, entry)
      [] self.output_format = "JSON"   -> entry_to_csv(self, entry)
      [] self.output_format = "CSV"    -> entry_to_csv(self, entry)

\* The match on self.output_format in next(): the renderer of the mode.
render(self, entry) ==
    CASE self.output_format = "Python" -> entry_to_pyobject(self, entry)
      [] self.output_format = "JSON"   -> entry_to_json(self, entry)
      [] self.output_format = "CSV"    -> entry_to_csv(self, entry)

\* What next() makes of a failed get_entry: the error as a value.
decode_failure(self, entry) ==
    [self |-> self, obj |-> ErrObject(entry.err.slot, entry.err.msg)]

\* loop_body that starts over once the table is exhausted.
loop_body_rewind(self) ==
    IF self.current_record = self.total_number_of_records
    THEN [self     |-> [self EXCEPT !.current_record = 0],
          continue |-> FALSE, ret |-> Ok(None), reads |-> <<>>]
    ELSE LET entry == get_entry(self.inner, self.current_record) IN
         IF entry.tag = "Ok" /\ entry.val.header.signature = ZERO_HEADER
         THEN [self     |-> [self EXCEPT !.current_record = @ + 1],
               continue |-> TRUE, ret |-> None,
               reads    |-> <<self.current_record>>]
         ELSE LET out == IF entry.tag = "Ok" THEN render(self, entry)
                         ELSE decode_failure(self, entry)
              IN  [self     |-> [out.self EXCEPT !.current_record = @ + 1],
                   continue |-> FALSE, ret |-> Ok(Some(out.obj)),
                   reads    |-> <<self.current_record>>]

\* loop_body that tests exhaustion with >= and advances the cursor twice
\* over a zeroed slot (in the branch and at the end of the loop).
loop_body_overshoot(self) ==
    IF self.current_record >= self.total_number_of_records
    THEN [self |-> self, continue |-> FALSE, ret |-> Ok(None), reads |-> <<>>]
    ELSE LET entry == get_entry(self.inner, self.current_record) IN
         IF entry.tag = "Ok" /\ entry.val.header.signature = ZERO_HEADER
         THEN [self     |-> [self EXCEPT !.current_record = @ + 2],
               continue |-> TRUE, ret |-> None,
               reads    |-> <<self.current_record>>]
         ELSE LET out == IF entry.tag = "Ok" THEN render(self, entry)
                         ELSE decode_failure(self, entry)
              IN  [self     |-> [out.self EXCEPT !.current_record = @ + 1],
                   continue |-> FALSE, ret |-> Ok(Some(out.obj)),
                   reads    |-> <<self.current_record>>]

\* loop_body that returns a decode failure from inside the match, before the
\* cursor is advanced.
loop_body_stuck(self) ==
    IF self.current_record = self.total_number_of_records
    THEN [self |-> self, continue |-> FALSE, ret |-> Ok(None), reads |-> <<>>]
    ELSE LET entry == get_entry(self.inner, self.current_record) IN
         IF entry.tag = "Ok" /\ entry.val.header.signature = ZERO_HEADER
         THEN [self     |-> [self EXCEPT !.current_record = @ + 1],
               continue |-> TRUE, ret |-> None,
               reads    |-> <<self.current_record>>]
         ELSE IF entry.tag = "Ok"
              THEN LET out == render(self, entry) IN
                   [self     |-> [out.self EXCEPT !.current_record = @ + 1],
                    continue |-> FALSE, ret |-> Ok(Some(out.obj)),
                    reads    |-> <<self.current_record>>]
              ELSE [self     |-> self,
                    continue |-> FALSE,
                    ret      |-> Ok(Some(decode_failure(self, entry).obj)),
                    reads    |-> <<self.current_record>>]

\* loop_body without the ZERO_HEADER test: a zeroed slot is rendered.
loop_body_emit_zero(self) ==
    IF self.current_record = self.total_number_of_records
    THEN [self |-> self, continue |-> FALSE, ret |-> Ok(None), reads |-> <<>>]
    ELSE LET entry == get_entry(self.inner, self.current_record)
             out   == IF entry.tag = "Ok" THEN render(self, entry)
                      ELSE decode_failure(self, entry)
         IN  [self     |-> [out.self EXCEPT !.current_record = @ + 1],
              continue |-> FALSE, ret |-> Ok(Some(out.obj)),
              reads    |-> <<self.current_record>>]

\* loop_body that passes over an undecodable slot as it does a zeroed one.
loop_body_skip_corrupt(self) ==
    IF self.current_record = self.total_number_of_records
    THEN [self |-> self, continue |-> FALSE, ret |-> Ok(None), reads |-> <<>>]
    ELSE LET entry == get_entry(self.inner, self.current_record) IN
         IF entry.tag = "Err" \/ entry.val.header.signature = ZERO_HEADER
         THEN [self     |-> [self EXCEPT !.current_record = @ + 1],
               continue |-> TRUE, ret |-> None,
               reads    |-> <<self.current_record>>]
         ELSE LET out == render(self, entry)
              IN  [self     |-> [out.self EXCEPT !.current_record = @ + 1],
                   continue |-> FALSE, ret |-> Ok(Some(out.obj)),
                   reads    |-> <<self.current_record>>]

\* loop_body that raises a rendering failure (the ? operator) instead of
\* returning it as a value, leaving before the cursor is advanced.
loop_body_raise(self) ==
    IF self.current_record = self.total_number_of_records
    THEN [self |-> self, continue |-> FALSE, ret |-> Ok(None), reads |-> <<>>]
    ELSE LET entry == get_entry(self.inner, self.current_record) IN
         IF entry.tag = "Ok" /\ entry.val.header.signature = ZERO_HEADER
         THEN [self     |-> [self EXCEPT !.current_record = @ + 1],
               continue |-> TRUE, ret |-> None,
               reads    |-> <<self.current_record>>]
         ELSE LET out == IF entry.tag = "Ok" THEN render(self, entry)
                         ELSE decode_failure(self, entry)
              IN  IF entry.tag = "Ok" /\ out.obj.typ = "error"
                  THEN [self     |-> out.self,
                        continue |-> FALSE, ret |-> Err(out.obj.msg),
                        reads    |-> <<self.current_record>>]
                  ELSE [self     |-> [out.self EXCEPT !.current_record = @ + 1],
                        continue |-> FALSE, ret |-> Ok(Some(out.obj)),
                        reads    |-> <<self.current_record>>]

\* One turn of the loop of next(): the iterator after it, whether the loop
\* goes round again (continue), what is returned otherwise, and the slots
\* get_entry was asked for.
loop_body(self) ==
    IF self.current_record = self.total_number_of_records
    THEN [self |-> self, continue |-> FALSE, ret |-> Ok(None), reads |-> <<>>]
    ELSE LET entry == get_entry(self.inner, self.current_record) IN
         IF entry.tag = "Ok" /\ entry.val.header.signature = ZERO_HEADER
         THEN [self     |-> [self EXCEPT !.current_record = @ + 1],
               continue |-> TRUE, ret |-> None,
               reads    |-> <<self.current_record>>]
         ELSE LET out == IF entry.tag = "Ok" THEN render(self, entry)
                         ELSE decode_failure(self, entry)
              IN  [self     |-> [out.self EXCEPT !.current_record = @ + 1],
                   continue |-> FALSE, ret |-> Ok(Some(out.obj)),
                   reads    |-> <<self.current_record>>]

\* fn next(&mut self): the loop, run until it returns.
RECURSIVE next(_)
next(self) ==
    LET turn == loop_body(self) IN
    IF turn.continue
    THEN LET rest == next(turn.self) IN
         [self |-> rest.self, ret |-> rest.ret, reads |-> turn.reads \o rest.reads]
    ELSE [self |-> turn.self, ret |-> turn.ret, reads |-> turn.reads]

----------------------------------------------------------------------------
(* The state machine: one action per call a Python caller can make. *)

\* A call and its outcome, as the variable last records it.
Call(op, p, i, ret) == [op |-> op, parser |-> p, iter |-> i, ret |-> ret]

\* The names of the calls that begin an iteration.
BeginOps == {"entries", "entries_json", "entries_csv", "__iter__"}

\* PyMftParser::new succeeded on every facade, each on a table of its own.
Init ==
    /\ \E tables \in [Facades -> Tables] :
          parser = [p \in Facades |->
                       [inner |-> Some(MftParser(p, tables[p]))]]
    /\ iterators = <<>>
    /\ pulled = <<>>
    /\ decode_log = <<>>
    /\ last = Call("new", "", 0, Ok(None))

\* The effect of a begin-iteration call on facade p whose outcome is r.
Begin(op, p, r) ==
    /\ parser' = [parser EXCEPT ![p] = r.self]
    /\ IF r.ret.tag = "Ok"
       THEN /\ iterators' = Append(iterators, r.ret.val)
            /\ pulled' = Append(pulled, <<>>)
            /\ decode_log' = Append(decode_log, <<>>)
            /\ last' = Call(op, p, Len(iterators) + 1, Ok(Len(iterators) + 1))
       ELSE /\ UNCHANGED <<iterators, pulled, decode_log>>
            /\ last' = Call(op, p, 0, r.ret)

\* parser.entries()
Entries(p) == Begin("entries", p, entries(parser[p]))

\* parser.entries_json()
EntriesJson(p) == Begin("entries_json", p, entries_json(parser[p]))

\* parser.entries_csv()
EntriesCsv(p) == Begin("entries_csv", p, entries_csv(parser[p]))

\* iter(parser): PyIterProtocol::__iter__ for PyMftParser calls entries().
ParserIter(p) == Begin("__iter__", p, entries(parser[p]))

\* next(parser) that goes through entries() first, taking the handle out
\* of the facade, before it refuses.
ParserNext_delegating(p) ==
    LET r == entries(parser[p]) IN
    /\ parser' = [parser EXCEPT ![p] = r.self]
    /\ last' = Call("__next__", p, 0, Err(NotSupported))
    /\ UNCHANGED <<iterators, pulled, decode_log>>

\* next(parser): PyIterProtocol::__next__ for PyMftParser always fails.
ParserNext(p) ==
    /\ last' = Call("__next__", p, 0, Err(NotSupported))
    /\ UNCHANGED <<parser, iterators, pulled, decode_log>>

\* parser.number_of_entries()
NumberOfEntries(p) ==
    /\ last' = Call("number_of_entries", p, 0, number_of_entries(parser[p]))
    /\ UNCHANGED <<parser, iterators, pulled, decode_log>>

\* next(iterator): PyIterProtocol::__next__ for PyMftEntriesIterator.
IterNext(i) ==
    LET r == next(iterators[i]) IN
    /\ iterators' = [iterators EXCEPT ![i] = r.self]
    /\ decode_log' = [decode_log EXCEPT ![i] = @ \o r.reads]
    /\ pulled' = [pulled EXCEPT ![i] =
                     IF r.ret.tag = "Ok" /\ r.ret.val # None
                     THEN Append(@, r.ret.val.val)
                     ELSE @]
    /\ last' = Call("next", iterators[i].inner.src, i, r.ret)
    /\ UNCHANGED parser

\* iter(iterator): PyIterProtocol::__iter__ for PyMftEntriesIterator.
IterIter(i) ==
    /\ last' = Call("iter.__iter__", iterators[i].inner.src, i, Ok(i))
    /\ UNCHANGED <<parser, iterators, pulled, decode_log>>

Next ==
    \/ \E p \in DOMAIN parser : Entries(p)
    \/ \E p \in DOMAIN parser : EntriesJson(p)
    \/ \E p \in DOMAIN parser : EntriesCsv(p)
    \/ \E p \in DOMAIN parser : ParserIter(p)
    \/ \E p \in DOMAIN parser : ParserNext(p)
    \/ \E p \in DOMAIN parser : NumberOfEntries(p)
    \/ \E i \in DOMAIN iterators : IterNext(i)
    \/ \E i \in DOMAIN iterators : IterIter(i)

Spec == Init /\ [][Next]_vars

----------------------------------------------------------------------------
(* Two parsers side by side, each opened on a table of its own. *)

\* Most slots the two tables have together when two facades coexist.
MaxSlotsTwo == 2

TwoFacades == {"p1", "p2"}

TablesTwo == UNION {TablesOfLen(n) : n \in 0..MaxSlotsTwo}

\* PyMftParser::new succeeded twice.
InitTwo ==
    /\ \E tables \in [TwoFacades -> TablesTwo] :
          /\ Len(tables["p1"]) + Len(tables["p2"]) <= MaxSlotsTwo
          /\ parser = [p \in TwoFacades |->
                          [inner |-> Some(MftParser(p, tables[p]))]]
    /\ iterators = <<>>
    /\ pulled = <<>>
    /\ decode_log = <<>>
    /\ last = Call("new", "", 0, Ok(None))

SpecTwo == InitTwo /\ [][Next]_vars

----------------------------------------------------------------------------
(* Properties. *)

\* The iterators derived from facade p.
Derived(p) == {i \in DOMAIN iterators : iterators[i].inner.src = p}

\* The kind of slot n (0-based) of the table iterator i walks.
SlotKind(i, n) == iterators[i].inner.slots[n + 1]

\* The step is a call of next() on iterator i.
PullOn(i) == last'.op = "next" /\ last'.iter = i

\* C1: once a begin-iteration call (entries, entries_json, entries_csv,
\* __iter__) has succeeded on a facade, every later begin-iteration call on
\* it fails with "PyMftParser can only be used once" and leaves the first
\* iterator (cursor, total, mode, header flag) and what it has returned and
\* read untouched.
C1_SecondBeginFails ==
    [][\A p \in DOMAIN parser :
          (Derived(p) # {} /\ last'.op \in BeginOps /\ last'.parser = p)
          => /\ last'.ret = Err(AlreadyConsumed)
             /\ iterators' = iterators
             /\ pulled' = pulled
             /\ decode_log' = decode_log
             /\ \A i \in Derived(p) : next(iterators'[i]) = next(iterators[i])]_vars

\* A second begin-iteration has just failed on a facade whose iterator is
\* part-way through its table with the CSV header already out.
C1_Witness ==
    /\ last.op \in BeginOps
    /\ last.ret = Err(AlreadyConsumed)
    /\ \E i \in Derived(last.parser) :
          /\ iterators[i].current_record > 0
          /\ iterators[i].current_record < iterators[i].total_number_of_records
          /\ iterators[i].csv_header_written

\* C2: the handle of a facade has exactly one owner: the facade itself, with
\* no iterator derived from it, or exactly one iterator, with the facade
\* holding none. No facade ever has more than one iterator.
C2_SingleOwner ==
    \A p \in DOMAIN parser :
        /\ Cardinality(Derived(p)) <= 1
        /\ \/ /\ parser[p].inner # None
              /\ parser[p].inner.val.src = p
              /\ Derived(p) = {}
           \/ /\ parser[p].inner = None
              /\ Cardinality(Derived(p)) = 1

\* The handle has moved to an iterator and a further begin-iteration call in
\* another mode has been turned down.
C2_Witness ==
    \E p \in DOMAIN parser :
        /\ parser[p].inner = None
        /\ \E i \in Derived(p) : iterators[i].output_format = "JSON"
        /\ last.op = "entries_csv"
        /\ last.parser = p

\* The positions in pulled[i] that hold a rendered CSV buffer.
Buffers(i) == {k \in DOMAIN pulled[i] : pulled[i][k].typ = "bytes"}

\* C3: in CSV mode, as soon as one record has been rendered, exactly one of
\* the buffers returned holds the header line, and it is the first buffer:
\* the one of the first slot that is neither zeroed, nor undecodable, nor
\* unserializable.
C3_HeaderOnFirstRendered ==
    \A i \in DOMAIN iterators :
        iterators[i].output_format = "CSV" =>
            \A k \in Buffers(i) :
                pulled[i][k].header <=> (\A j \in Buffers(i) : k <= j)

\* C4: csv_header_written goes from false to true only in a pull that returns
\* a rendered CSV buffer (never in one that returns an error or only skips
\* zeroed slots), and never goes back to false.
C4_HeaderFlagOnlyOnRender ==
    [][\A i \in DOMAIN iterators :
          /\ (~iterators[i].csv_header_written /\ iterators'[i].csv_header_written)
             => /\ PullOn(i)
                /\ last'.ret.val # None
                /\ last'.ret.val.val.typ = "bytes"
          /\ iterators[i].csv_header_written => iterators'[i].csv_header_written]_vars

\* Iterator i has reached the end of its table.
Exhausted(i) ==
    iterators[i].current_record = iterators[i].total_number_of_records

\* C5: once current_record equals total_number_of_records, a pull returns
\* "exhausted" (Ok(None), not an error), changes no field of the iterator,
\* returns no value and asks the decoder for nothing.
C5_ExhaustedIsStable ==
    [][\A i \in DOMAIN iterators :
          (PullOn(i) /\ Exhausted(i))
          => /\ last'.ret = Ok(None)
             /\ iterators'[i] = iterators[i]
             /\ pulled'[i] = pulled[i]
             /\ decode_log'[i] = decode_log[i]]_vars

\* A pull on an iterator that was already at the end of a non-empty table
\* (its last slot was returned by an earlier pull) has returned "exhausted".
C5_Witness ==
    /\ last.op = "next"
    /\ last.ret = Ok(None)
    /\ LET i == last.iter
           n == iterators[i].total_number_of_records
       IN  /\ n > 1
           /\ Exhausted(i)
           /\ SlotKind(i, n - 1) # "zero"
           /\ Len(pulled[i]) > 0
           /\ pulled[i][Len(pulled[i])].slot = n - 1

\* C6: 0 <= current_record <= total_number_of_records in every state, and
\* no step makes current_record smaller.
C6_CursorBoundedMonotonic ==
    /\ [](\A i \in DOMAIN iterators :
             /\ 0 <= iterators[i].current_record
             /\ iterators[i].current_record <= iterators[i].total_number_of_records)
    /\ [][\A i \in DOMAIN iterators :
             iterators'[i].current_record >= iterators[i].current_record]_vars

\* An iterator part-way through its table that has skipped a zeroed slot.
C6_Witness ==
    \E i \in DOMAIN iterators :
        /\ iterators[i].current_record > 1
        /\ iterators[i].current_record < iterators[i].total_number_of_records
        /\ \E n \in 0..(iterators[i].current_record - 1) : SlotKind(i, n) = "zero"

\* The slot the next pull on iterator i reports: the first one at or after
\* the cursor that is not zeroed (the total if there is none).
RECURSIVE FirstNonZero(_, _)
FirstNonZero(i, c) ==
    IF c >= iterators[i].total_number_of_records THEN c
    ELSE IF SlotKind(i, c) = "zero" THEN FirstNonZero(i, c + 1)
    ELSE c

Target(i) == FirstNonZero(i, iterators[i].current_record)

\* The slot indexes from a up to b - 1, in order.
Range(a, b) == [k \in 1..(b - a) |-> a + k - 1]

\* C7: when the decode of the slot a pull arrives at fails, that pull returns
\* the decode failure as its value, leaves current_record one past that slot
\* (one more than the cursor when no zeroed slot was skipped), and the next
\* pull starts at the following slot; in every output mode.
C7_DecodeFailureAdvances ==
    [][\A i \in DOMAIN iterators :
          LET t == Target(i) IN
          (PullOn(i) /\ ~Exhausted(i)
             /\ t < iterators[i].total_number_of_records
             /\ SlotKind(i, t) = "corrupt")
          => /\ iterators'[i].current_record = t + 1
             /\ last'.ret = Ok(Some(ErrObject(t, "decode")))
             /\ pulled'[i] = Append(pulled[i], ErrObject(t, "decode"))
             /\ decode_log'[i] =
                    decode_log[i] \o Range(iterators[i].current_record, t + 1)
             /\ LET after == next(iterators'[i]) IN
                IF t + 1 = iterators[i].total_number_of_records
                THEN after.ret = Ok(None)
                ELSE after.reads[1] = t + 1]_vars

\* An iterator returned a decode failure for one slot and then a rendered
\* record for the slot right after it.
C7_Witness ==
    \E i \in DOMAIN iterators : \E k \in DOMAIN pulled[i] :
        /\ k + 1 \in DOMAIN pulled[i]
        /\ pulled[i][k] = ErrObject(pulled[i][k].slot, "decode")
        /\ SlotKind(i, pulled[i][k].slot) = "corrupt"
        /\ pulled[i][k + 1].slot = pulled[i][k].slot + 1
        /\ pulled[i][k + 1].typ # "error"

\* The cursors at which the loop of the next pull on iterator i goes round
\* again: the zeroed slots between the cursor and the slot it reports.
LoopCursors(i) == iterators[i].current_record..(Target(i) - 1)

\* C8: a zeroed slot is never returned by a pull, as a record or as an
\* error, and the turn of the loop that meets one only adds one to
\* current_record: csv_header_written and the other fields stay as they are.
C8_ZeroSlotSkipped ==
    \A i \in DOMAIN iterators :
        /\ \A k \in DOMAIN pulled[i] : SlotKind(i, pulled[i][k].slot) # "zero"
        /\ \A c \in LoopCursors(i) :
              LET at   == [iterators[i] EXCEPT !.current_record = c]
                  turn == loop_body(at)
              IN  /\ SlotKind(i, c) = "zero"
                  /\ turn.continue
                  /\ turn.self = [at EXCEPT !.current_record = c + 1]

\* A CSV iterator has gone past a zeroed leading slot and a zeroed slot
\* further on, and the only buffers it returned are for the slots between
\* and after; the header flag is still unset before the first of them.
C8_Witness ==
    \E i \in DOMAIN iterators :
        /\ iterators[i].output_format = "CSV"
        /\ iterators[i].current_record >= 3
        /\ SlotKind(i, 0) = "zero"
        /\ SlotKind(i, 1) = "file"
        /\ SlotKind(i, 2) = "zero"
        /\ Len(pulled[i]) >= 1
        /\ pulled[i][1] = Rendered("bytes", 1, TRUE)

\* The slots below c of the table of iterator i that are not zeroed, in
\* increasing order.
RECURSIVE NonZeroBelow(_, _)
NonZeroBelow(i, c) ==
    IF c = 0 THEN <<>>
    ELSE IF SlotKind(i, c - 1) = "zero" THEN NonZeroBelow(i, c - 1)
    ELSE Append(NonZeroBelow(i, c - 1), c - 1)

\* C9: the values an iterator has returned correspond one to one, in
\* increasing slot order, to the slots below its cursor that are not zeroed
\* (a record for a valid slot, an error for a failing one); the decoder was
\* asked for each slot below the cursor once, in order; at exhaustion the
\* cursor is the total, so this covers the whole table.
C9_OneValuePerNonZeroSlot ==
    \A i \in DOMAIN iterators :
        LET slots == NonZeroBelow(i, iterators[i].current_record) IN
        /\ Len(pulled[i]) = Len(slots)
        /\ \A k \in DOMAIN pulled[i] :
              /\ pulled[i][k].slot = slots[k]
              /\ pulled[i][k].typ = "error"
                    <=> SlotKind(i, slots[k]) \in {"corrupt", "unser"}
        /\ decode_log[i] = Range(0, iterators[i].current_record)
        /\ (last.op = "next" /\ last.iter = i /\ last.ret = Ok(None))
              => Exhausted(i)

\* An iterator has run to exhaustion over a table that mixes zeroed, failing
\* and valid slots.
C9_Witness ==
    \E i \in DOMAIN iterators :
        /\ last.op = "next" /\ last.iter = i /\ last.ret = Ok(None)
        /\ Exhausted(i)
        /\ Len(pulled[i]) >= 2
        /\ Len(pulled[i]) < iterators[i].total_number_of_records
        /\ \E k \in DOMAIN pulled[i] : pulled[i][k].typ = "error"
        /\ \E k \in DOMAIN pulled[i] : pulled[i][k].typ # "error"

\* The message of the error value a failed rendering gives in each mode.
RenderFailure(output_format) ==
    CASE output_format = "Python" -> "PyMftEntry construction failed"
      [] output_format = "JSON"   -> "JSON Serialization failed"
      [] output_format = "CSV"    -> "CSV Serialization failed"

\* C10: when the record a pull arrives at decodes but its rendering fails
\* (JSON or CSV serialization, or construction of the object), the pull
\* returns the failure as its value, leaves current_record one past that
\* slot, and the next pull starts at the following slot.
C10_RenderFailureAdvances ==
    [][\A i \in DOMAIN iterators :
          LET t == Target(i)
              e == ErrObject(t, RenderFailure(iterators[i].output_format))
          IN
          (PullOn(i) /\ ~Exhausted(i)
             /\ t < iterators[i].total_number_of_records
             /\ SlotKind(i, t) = "unser")
          => /\ iterators'[i].current_record = t + 1
             /\ last'.ret = Ok(Some(e))
             /\ pulled'[i] = Append(pulled[i], e)
             /\ decode_log'[i] =
                    decode_log[i] \o Range(iterators[i].current_record, t + 1)
             /\ LET after == next(iterators'[i]) IN
                IF t + 1 = iterators[i].total_number_of_records
                THEN after.ret = Ok(None)
                ELSE after.reads[1] = t + 1]_vars

\* An iterator returned a serialization failure for one slot and then a
\* rendered record for the slot right after it.
C10_Witness ==
    \E i \in DOMAIN iterators : \E k \in DOMAIN pulled[i] :
        /\ k + 1 \in DOMAIN pulled[i]
        /\ pulled[i][k].typ = "error"
        /\ pulled[i][k].msg = "CSV Serialization failed"
        /\ SlotKind(i, pulled[i][k].slot) = "unser"
        /\ pulled[i][k + 1].slot = pulled[i][k].slot + 1
        /\ pulled[i][k + 1].typ = "bytes"

\* C11: a pull never fails with a raised fault: next() returns Ok, either
\* "exhausted" (None) or a value; a decode or rendering error is such a
\* value, returned in the position of its slot (after the values of the
\* slots before it, as the value of the slot the pull arrived at).
C11_PullNeverRaises ==
    [][\A i \in DOMAIN iterators :
          PullOn(i)
          => /\ last'.ret.tag = "Ok"
             /\ \/ /\ last'.ret.val = None
                   /\ pulled'[i] = pulled[i]
                \/ /\ last'.ret.val.tag = "Some"
                   /\ last'.ret.val.val.typ \in {"PyMftEntry", "str", "bytes", "error"}
                   /\ last'.ret.val.val.slot = Target(i)
                   /\ pulled'[i] = Append(pulled[i], last'.ret.val.val)
                   /\ (SlotKind(i, Target(i)) \in {"corrupt", "unser"}
                         <=> last'.ret.val.val.typ = "error")]_vars

\* The last pull delivered an error value, after a rendered record and
\* before the end of the table.
C11_Witness ==
    /\ last.op = "next"
    /\ last.ret.tag = "Ok"
    /\ last.ret.val # None
    /\ last.ret.val.val.typ = "error"
    /\ Len(pulled[last.iter]) >= 2
    /\ pulled[last.iter][1].typ # "error"
    /\ ~Exhausted(last.iter)

\* C12: number_of_entries() on a facade that holds its handle returns the
\* record count and changes nothing (a begin-iteration call still succeeds
\* afterwards); on a facade whose handle has moved to an iterator it fails
\* with "Cannot call this method before object is initialized" and changes
\* neither the facade nor the iterator.
C12_RecordCount ==
    [][\A p \in DOMAIN parser :
          (last'.op = "number_of_entries" /\ last'.parser = p)
          => /\ parser' = parser
             /\ iterators' = iterators
             /\ pulled' = pulled
             /\ decode_log' = decode_log
             /\ IF parser[p].inner # None
                THEN /\ last'.ret = Ok(Len(parser[p].inner.val.slots))
                     /\ \A m \in Output :
                           records_iterator(parser'[p], m).ret.tag = "Ok"
                ELSE /\ last'.ret = Err(NotInitialized)
                     /\ Derived(p) # {}]_vars

\* number_of_entries() has just failed on a facade whose iterator is
\* part-way through its table.
C12_Witness ==
    /\ last.op = "number_of_entries"
    /\ last.ret = Err(NotInitialized)
    /\ \E i \in Derived(last.parser) :
          /\ iterators[i].current_record > 0
          /\ ~Exhausted(i)

\* The output format each begin-iteration call asks for.
ModeOf(op) ==
    CASE op = "entries"      -> "Python"
      [] op = "__iter__"     -> "Python"
      [] op = "entries_json" -> "JSON"
      [] op = "entries_csv"  -> "CSV"

\* C13: a begin-iteration call that succeeds in mode M returns a new iterator
\* with current_record = 0, csv_header_written = false, output_format = M,
\* holding the handle of the facade, and total_number_of_records equal to
\* what number_of_entries() returned on the facade just before.
C13_FreshIterator ==
    [][\A p \in DOMAIN parser :
          (last'.op \in BeginOps /\ last'.parser = p /\ last'.ret.tag = "Ok")
          => /\ parser[p].inner # None
             /\ last'.ret.val = Len(iterators) + 1
             /\ iterators' = Append(iterators,
                   [inner                   |-> parser[p].inner.val,
                    total_number_of_records |-> number_of_entries(parser[p]).val,
                    current_record          |-> 0,
                    output_format           |-> ModeOf(last'.op),
                    csv_header_written      |-> FALSE])
             /\ pulled' = Append(pulled, <<>>)]_vars

\* entries_json() has just handed out a fresh iterator over a table of at
\* least three slots.
C13_Witness ==
    /\ last.op = "entries_json"
    /\ last.ret.tag = "Ok"
    /\ iterators[last.ret.val].output_format = "JSON"
    /\ iterators[last.ret.val].current_record = 0
    /\ iterators[last.ret.val].total_number_of_records >= 3

\* The table of the scenario: slot 0 zeroed, slot 1 valid, slot 2 undecodable.
ScenarioTable == <<"zero", "file", "corrupt">>

\* What an iterator over ScenarioTable returns, in order.
ScenarioValues(output_format) ==
    << IF output_format = "CSV" THEN Rendered("bytes", 1, TRUE)
       ELSE Rendered("PyMftEntry", 1, FALSE),
       ErrObject(2, "decode") >>

\* C14: over the table (zeroed, valid, undecodable), an Object-mode iterator
\* returns a rendered record and then an error value, a CSV-mode iterator a
\* header+data buffer for slot 1 and then an error value for slot 2, nothing
\* for slot 0; the third pull returns "exhausted".
C14_Scenario ==
    \A i \in DOMAIN iterators :
        (iterators[i].inner.slots = ScenarioTable
           /\ iterators[i].output_format \in {"Python", "CSV"})
        => LET it     == iterators[i]
               expect == ScenarioValues(it.output_format)
               first  == next([it EXCEPT !.current_record = 0,
                                         !.csv_header_written = FALSE])
               second == next(first.self)
               third  == next(second.self)
           IN  /\ first.ret = Ok(Some(expect[1]))
               /\ second.ret = Ok(Some(expect[2]))
               /\ third.ret = Ok(None)
               /\ it.current_record \in {0, 2, 3}
               /\ pulled[i] = CASE it.current_record = 0 -> <<>>
                                [] it.current_record = 2 -> <<expect[1]>>
                                [] it.current_record = 3 -> expect
               /\ (last.op = "next" /\ last.iter = i /\ last.ret = Ok(None))
                     => pulled[i] = expect

\* A CSV iterator over the scenario table has been pulled three times: two
\* values, then "exhausted".
C14_Witness ==
    /\ last.op = "next"
    /\ last.ret = Ok(None)
    /\ iterators[last.iter].inner.slots = ScenarioTable
    /\ iterators[last.iter].output_format = "CSV"
    /\ pulled[last.iter] = ScenarioValues("CSV")

\* The same run in Object mode.
C14_WitnessObject ==
    /\ last.op = "next"
    /\ last.ret = Ok(None)
    /\ iterators[last.iter].inner.slots = ScenarioTable
    /\ iterators[last.iter].output_format = "Python"
    /\ pulled[last.iter] = ScenarioValues("Python")

RECURSIVE Pulls(_, _)
Pulls(it, k) ==
    IF k = 1 THEN next(it) ELSE Pulls(next(it).self, k - 1)

\* Iterator i as records_iterator built it.
Fresh(i) ==
    [iterators[i] EXCEPT !.current_record = 0, !.csv_header_written = FALSE]

\* C16: a pull ends: every turn of its loop that goes round again moves the
\* cursor up by one, towards the total, so it asks the decoder for no more
\* slots than are left. Over a table of N slots an iterator returns at most
\* N values and issues at most N decode requests, and pull N + 1 from the
\* fresh iterator (pull N - cursor + 1 from the current state) returns
\* "exhausted".
C16_PullsTerminate ==
    \A i \in DOMAIN iterators :
        LET it == iterators[i]
            N  == it.total_number_of_records
        IN  /\ Len(pulled[i]) <= N
            /\ Len(pulled[i]) <= it.current_record
            /\ Len(decode_log[i]) <= N
            /\ \A c \in LoopCursors(i) :
                  /\ c + 1 <= N
                  /\ loop_body([it EXCEPT !.current_record = c]).self.current_record
                        = c + 1
            /\ Len(next(it).reads) <= N - it.current_record
            /\ Pulls(Fresh(i), N + 1).ret = Ok(None)
            /\ Pulls(it, N - it.current_record + 1).ret = Ok(None)

\* Pull N + 1 over a table of N >= 3 slots, none zeroed, has returned
\* "exhausted" after N pulls that each returned a value.
C16_Witness ==
    /\ last.op = "next"
    /\ last.ret = Ok(None)
    /\ iterators[last.iter].total_number_of_records >= 3
    /\ Len(pulled[last.iter]) = iterators[last.iter].total_number_of_records
    /\ Len(decode_log[last.iter]) = iterators[last.iter].total_number_of_records

\* One pull has gone through a run of three zeroed slots.
C16_WitnessZeroRun ==
    \E i \in DOMAIN iterators :
        /\ iterators[i].current_record >= 3
        /\ pulled[i] = <<>>
        /\ \A n \in 0..2 : SlotKind(i, n) = "zero"

\* A pull on one iterator leaves every other iterator, what it has returned
\* and what it has read as they were.
PullsAreLocal ==
    \A i \in DOMAIN iterators : \A j \in DOMAIN iterators :
        (PullOn(i) /\ j # i)
        => /\ iterators'[j] = iterators[j]
           /\ pulled'[j] = pulled[j]
           /\ decode_log'[j] = decode_log[j]

\* Each CSV iterator has the header in the first buffer it returned and in
\* no other.
OwnHeaderOnFirstRendered ==
    \A i \in DOMAIN iterators :
        iterators[i].output_format = "CSV" =>
            \A k \in Buffers(i) :
                pulled[i][k].header <=> (\A j \in Buffers(i) : k <= j)

\* C17: iterators derived from different facades are independent: a pull on
\* one leaves the cursor and the header flag of the other unchanged, so each
\* CSV iterator emits its own header with its own first successfully
\* rendered record, however the pulls are interleaved.
C17_IndependentIterators ==
    /\ [][PullsAreLocal]_vars
    /\ []OwnHeaderOnFirstRendered

\* The part of C17 about the frame of a pull, on its own.
C17_PullsAreLocal == [][PullsAreLocal]_vars

\* Both iterators exist and each has returned a value.
C17_BothPulled ==
    /\ Len(iterators) = 2
    /\ iterators[1].inner.src # iterators[2].inner.src
    /\ Len(pulled[1]) > 0
    /\ Len(pulled[2]) > 0

\* C18: no step changes the total_number_of_records or the output_format
\* (or the handle) of an iterator, and csv_header_written stays false in
\* every iterator that is not in CSV mode.
C18_ImmutableFields ==
    /\ [][\A i \in DOMAIN iterators :
             /\ iterators'[i].total_number_of_records
                   = iterators[i].total_number_of_records
             /\ iterators'[i].output_format = iterators[i].output_format
             /\ iterators'[i].inner = iterators[i].inner]_vars
    /\ [](\A i \in DOMAIN iterators :
             /\ iterators[i].total_number_of_records
                   = get_entry_count(iterators[i].inner)
             /\ iterators[i].output_format # "CSV"
                   => ~iterators[i].csv_header_written)

\* A JSON iterator has rendered records up to the end of its table, its
\* header flag still unset.
C18_Witness ==
    \E i \in DOMAIN iterators :
        /\ iterators[i].output_format = "JSON"
        /\ Exhausted(i)
        /\ Len(pulled[i]) >= 2
        /\ \A k \in DOMAIN pulled[i] : pulled[i][k].typ = "str"
        /\ ~iterators[i].csv_header_written

\* C19: a pull that returns "exhausted" leaves current_record equal to
\* total_number_of_records, also when it started below the total with only
\* zeroed slots left; a pull that returns a value returns the one of slot t,
\* the first slot at or after the cursor that is not zeroed, and leaves
\* current_record = t + 1.
C19_CursorAfterPull ==
    [][\A i \in DOMAIN iterators :
          LET t == Target(i)
              N == iterators[i].total_number_of_records
          IN  PullOn(i)
              => /\ iterators'[i].total_number_of_records = N
                 /\ IF last'.ret = Ok(None)
                    THEN /\ t = N
                         /\ iterators'[i].current_record = N
                    ELSE /\ t < N
                         /\ SlotKind(i, t) # "zero"
                         /\ \A n \in iterators[i].current_record..(t - 1) :
                               SlotKind(i, n) = "zero"
                         /\ last'.ret.val.val.slot = t
                         /\ iterators'[i].current_record = t + 1]_vars

\* A pull that started below the total, with only zeroed slots left, has
\* returned "exhausted" and taken the cursor to the total.
C19_Witness ==
    /\ last.op = "next"
    /\ last.ret = Ok(None)
    /\ LET i == last.iter
           N == iterators[i].total_number_of_records
       IN  /\ N >= 3
           /\ Exhausted(i)
           /\ SlotKind(i, N - 1) = "zero"
           /\ SlotKind(i, N - 2) = "zero"
           /\ Len(pulled[i]) > 0
           /\ pulled[i][Len(pulled[i])].slot = N - 3

\* C20: iter(parser) does what parser.entries() does: it moves the handle
\* into a new Object-mode iterator, or fails with "PyMftParser can only be
\* used once"; next(parser) always fails with the not-supported error and
\* changes nothing; iter(iterator) returns that iterator and changes nothing.
C20_IterProtocol ==
    [][/\ \A p \in DOMAIN parser :
             (last'.op = "__iter__" /\ last'.parser = p)
             => LET r == entries(parser[p]) IN
                /\ parser' = [parser EXCEPT ![p] = r.self]
                /\ IF parser[p].inner # None
                   THEN /\ r.ret.tag = "Ok"
                        /\ r.ret.val.output_format = "Python"
                        /\ iterators' = Append(iterators, r.ret.val)
                        /\ last'.ret = Ok(Len(iterators'))
                        /\ parser'[p].inner = None
                   ELSE /\ last'.ret = Err(AlreadyConsumed)
                        /\ UNCHANGED <<parser, iterators, pulled, decode_log>>
       /\ \A p \in DOMAIN parser :
             (last'.op = "__next__" /\ last'.parser = p)
             => /\ last'.ret = Err(NotSupported)
                /\ UNCHANGED <<parser, iterators, pulled, decode_log>>
       /\ \A i \in DOMAIN iterators :
             (last'.op = "iter.__iter__" /\ last'.iter = i)
             => /\ last'.ret = Ok(i)
                /\ UNCHANGED <<parser, iterators, pulled, decode_log>>]_vars

\* next(parser) has just been refused on a facade that still holds its
\* handle.
C20_Witness ==
    /\ last.op = "__next__"
    /\ last.ret = Err(NotSupported)
    /\ parser[last.parser].inner # None
    /\ Len(parser[last.parser].inner.val.slots) >= 2

\* iter(parser) has just handed out an Object-mode iterator.
C20_WitnessIter ==
    /\ last.op = "__iter__"
    /\ last.ret.tag = "Ok"
    /\ iterators[last.ret.val].output_format = "Python"
    /\ parser[last.parser].inner = None

====
